---------------------------- MODULE Spec2Model ----------------------------
(***************************************************************************)
(* The SMS message store of src/main.py: one SQLite table, sms_messages,   *)
(* behind the HTTP handlers of a FastAPI application.  A state is the      *)
(* durable table, its AUTOINCREMENT counter, the server clock and the last *)
(* request with the rows its cursor fetched and the response it produced,   *)
(* and the columns the table has (init_db adds device_id to a table made   *)
(* before the column existed).  The last part of the module runs the       *)
(* handlers statement by statement in several server processes on the same *)
(* database file; there a state also holds each handler's position and     *)
(* local variables and the connections that are open.                      *)
(* Every handler is one action: it opens its own connection (get_db),      *)
(* runs its statements, commits where the code commits, and answers.       *)
(***************************************************************************)
EXTENDS Integers, Sequences, FiniteSets

VARIABLES
    table,      \* the committed rows of sms_messages (a set of rows)
    seq,        \* sqlite_sequence for sms_messages: the largest id ever committed
    columns,    \* the columns of sms_messages ({}: there is no table yet)
    clock,      \* the server clock behind CURRENT_TIMESTAMP
    req,        \* the last request: its operation and arguments
    fetched,    \* what the last request's cursor.fetchall() returned
    resp,       \* the last response: status, items, count
    handlers,   \* per server process: the handler it runs, statement by statement
    handles     \* the connections that are open, named by the process that opened them

vars == <<table, seq, columns, clock, req, fetched, resp, handlers, handles>>

-----------------------------------------------------------------------------
(* Bounds of the model *)

MaxId == 3          \* ids the store may assign in one behaviour
MaxBulk == 2        \* longest batch posted to /api/messages/bulk
MaxClock == 1       \* clock ticks in one behaviour
MaxLegacy == 2      \* ids a store made before device_id existed has assigned
MaxStepId == 2      \* ids the store may assign while handlers interleave

(* Program constants *)

DefaultLimit == 100
DefaultOffset == 0

(* Input domains *)

Addresses == {"Mom", "mom"}
Bodies == {"hi"}
Dates == {1, 2}
Types == {1, 2}
DeviceIds == {"dev1"}
LimitArgs == {0, 1, 2}
OffsetArgs == {1, 2}

\* An optional argument: {} when omitted, {v} when given.
Optional(S) == {{}} \cup {{v} : v \in S}

Given(o) == o # {}

ValueOf(o) == CHOOSE v \in o : TRUE

OrDefault(o, d) == IF Given(o) THEN ValueOf(o) ELSE d

-----------------------------------------------------------------------------
(* The request body of POST /api/messages: class SmsMessage.  read is the   *)
(* only field with a default.                                              *)

SmsMessage(A, D, T) ==
    [address : A, body : Bodies, date : D,
     read : Optional(BOOLEAN), type : T, device_id : DeviceIds]

\* the request bodies each specification posts
CrudInputs == SmsMessage({"Mom"}, {1}, Types)

ListInputs == SmsMessage({"Mom"}, Dates, Types)

ConvInputs == SmsMessage(Addresses, Dates, {1})

\* pydantic fills the default: read: bool = False
Validated(m) ==
    [address |-> m.address, body |-> m.body, date |-> m.date,
     read |-> OrDefault(m.read, FALSE), type |-> m.type,
     device_id |-> m.device_id]

\* sqlite3 binds a Python bool as the integer 0 or 1
BindBool(b) == IF b THEN 1 ELSE 0

\* bool(row["read"])
PyBool(n) == n # 0

-----------------------------------------------------------------------------
(* The database as a connection sees it: the rows and the id counter.      *)

Db(t, s) == [rows |-> t, seq |-> s]

Ids(t) == {r.id : r \in t}

\* COUNT over a set of rows
Count(S) == Cardinality(S)

MaxOf(S) == CHOOSE x \in S : \A y \in S : y <= x

\* INTEGER PRIMARY KEY without AUTOINCREMENT: one more than the largest id stored
NextRowId(db) == MaxOf({0} \cup Ids(db.rows)) + 1

\* INTEGER PRIMARY KEY AUTOINCREMENT: one more than the largest id ever used
NextId(db) == MaxOf({db.seq} \cup Ids(db.rows)) + 1

\* INSERT INTO sms_messages (address, body, date, read, type, device_id)
\* VALUES (?, ?, ?, ?, ?, ?); created_at takes DEFAULT CURRENT_TIMESTAMP
ExecInsert(db, m, now) ==
    LET id == NextId(db)
        row == [id |-> id, address |-> m.address, body |-> m.body,
                date |-> m.date, read |-> BindBool(m.read), type |-> m.type,
                device_id |-> m.device_id, created_at |-> now]
    IN  Db(db.rows \cup {row}, id)

\* cursor.lastrowid after the INSERT
LastRowId(db) == db.seq

\* SELECT * FROM sms_messages WHERE id = ?   (fetchone: a set of 0 or 1 rows)
SelectById(db, id) == {r \in db.rows : r.id = id}

-----------------------------------------------------------------------------
(* Serialisation of a row.  The handlers read every column by key and      *)
(* device_id through row.get("device_id", "unknown"); the rows are         *)
(* sqlite3.Row objects (conn.row_factory = sqlite3.Row), a type that       *)
(* defines keys() and indexing but no method get, so the call raises       *)
(* AttributeError and the handler ends in the framework's 500 response.    *)

\* what an expression gives: a value, or an exception raised on the way
Returned(v) == [raised |-> FALSE, value |-> v]

AttributeError(v) == [raised |-> TRUE, value |-> v]

\* row.get(key, default) on a sqlite3.Row: 'sqlite3.Row' object has no
\* attribute 'get'
RowGet(row, key, default) == AttributeError(default)

\* the dict literal built from one row
RowToDict(row) ==
    LET dev == RowGet(row, "device_id", "unknown")
        dict == [id |-> row.id, address |-> row.address, body |-> row.body,
                 date |-> row.date, read |-> PyBool(row.read),
                 type |-> row.type, device_id |-> dev.value,
                 created_at |-> row.created_at]
    IN  IF dev.raised THEN AttributeError(dict) ELSE Returned(dict)

\* for row in rows: messages.append({...})
RowsToDicts(rows) ==
    LET dicts == [i \in 1..Len(rows) |-> RowToDict(rows[i]).value]
    IN  IF \E i \in 1..Len(rows) : RowToDict(rows[i]).raised
        THEN AttributeError(dicts) ELSE Returned(dicts)

-----------------------------------------------------------------------------
(* Responses *)

Response(status, items, count) ==
    [status |-> status, items |-> items, count |-> count]

\* an unhandled exception: 500 Internal Server Error
ServerError == Response(500, <<>>, 0)

\* HTTPException(status_code=404, detail="Message not found")
NotFound == Response(404, <<>>, 0)

\* no request is being answered
NoResponse == Response(0, <<>>, 0)

Idle == [op |-> "idle"]

\* the server processes that share the database file
Procs == {"a", "b"}

\* a process that runs no handler
IdleHandler == [pc |-> "idle"]

NoHandlers == [p \in Procs |-> IdleHandler]

\* CREATE TABLE IF NOT EXISTS sms_messages (id, ..., created_at)
LegacyColumns == {"id", "address", "body", "date", "read", "type", "created_at"}

\* the table after ALTER TABLE sms_messages ADD COLUMN device_id
Columns == LegacyColumns \cup {"device_id"}

\* init_db has run on a new database file
Init ==
    /\ table = {}
    /\ seq = 0
    /\ columns = Columns
    /\ clock = 0
    /\ req = Idle
    /\ fetched = <<>>
    /\ resp = NoResponse
    /\ handlers = NoHandlers
    /\ handles = {}

\* time passes between requests
Tick ==
    /\ req.op = "idle"
    /\ clock < MaxClock
    /\ clock' = clock + 1
    /\ UNCHANGED <<table, seq, columns, req, fetched, resp, handlers, handles>>

\* The with-block of the handler is left and the response is on its way: the
\* connection is closed, the cursor and its rows are gone, and the server
\* takes the next request.
ReturnResponse ==
    /\ req.op # "idle"
    /\ req' = Idle
    /\ fetched' = <<>>
    /\ resp' = NoResponse
    /\ UNCHANGED <<table, seq, columns, clock, handlers, handles>>

\* startup_event has run init_db and the server is free to take a request
Ready == req.op = "idle" /\ columns = Columns

\* One request handled from start to end: r is the handler's outcome.
Handle(request, r) ==
    /\ req' = request
    /\ table' = r.db.rows
    /\ seq' = r.db.seq
    /\ fetched' = r.fetched
    /\ resp' = r.resp
    /\ UNCHANGED <<clock, columns, handlers, handles>>

Outcome(db, rows, response) == [db |-> db, fetched |-> rows, resp |-> response]

-----------------------------------------------------------------------------
(* POST /api/messages.  fault: the storage layer fails before the commit;  *)
(* the handler ends in an exception and get_db closes the connection with  *)
(* the insert uncommitted.                                                 *)

CreateMessageResult(db, message, now, fault) ==
    LET m == Validated(message)
        txn == ExecInsert(db, m, now)
        row == SelectById(txn, LastRowId(txn))
        out == RowToDict(ValueOf(row))
    IN  IF fault THEN Outcome(db, <<>>, ServerError)
        ELSE Outcome(txn, <<ValueOf(row)>>,
                     IF out.raised THEN ServerError
                     ELSE Response(201, <<out.value>>, 0))

CreateMessageIn(M) ==
    /\ Ready
    /\ seq < MaxId
    /\ \E message \in M, fault \in BOOLEAN :
          Handle([op |-> "create", message |-> message, fault |-> fault],
                  CreateMessageResult(Db(table, seq), message, clock, fault))

CreateMessage == CreateMessageIn(CrudInputs)

(* POST /api/messages/bulk.  executemany inserts the rows one after the    *)
(* other inside one implicit transaction; commit makes them durable.       *)
(* faultAt = {k}: the storage layer fails after k rows of the batch were   *)
(* inserted (k = the batch length: at the commit).                         *)

RECURSIVE ExecuteMany(_, _, _, _)
ExecuteMany(db, messages, now, k) ==
    IF k = 0 THEN db
    ELSE ExecInsert(ExecuteMany(db, messages, now, k - 1),
                    Validated(messages[k]), now)

\* a connection in autocommit mode: what was inserted before the fault stays
CloseKeepsInserted(db, txn) == txn

\* get_db's finally: conn.close() with the transaction open drops it
CloseUncommitted(db, txn) == db

CreateMessagesBulkResult(db, messages, now, faultAt) ==
    IF Given(faultAt)
    THEN Outcome(CloseUncommitted(db, ExecuteMany(db, messages, now, ValueOf(faultAt))),
                 <<>>, ServerError)
    ELSE Outcome(ExecuteMany(db, messages, now, Len(messages)), <<>>,
                 Response(201, <<>>, Len(messages)))

CreateMessagesBulkIn(M) ==
    /\ Ready
    /\ \E n \in 0..MaxBulk :
        /\ seq + n <= MaxId
        /\ \E messages \in [1..n -> M], faultAt \in Optional(0..n) :
              Handle([op |-> "bulk", messages |-> messages, faultAt |-> faultAt],
                      CreateMessagesBulkResult(Db(table, seq), messages, clock, faultAt))

CreateMessagesBulk == CreateMessagesBulkIn(CrudInputs)

(* GET /api/messages/{message_id} *)

\* a get that marks the message read:
\* UPDATE sms_messages SET read = 1 WHERE id = ?
GetMessageMarksRead(db, id) ==
    LET row == SelectById(db, id)
    IN  IF row = {} THEN Outcome(db, <<>>, NotFound)
        ELSE Outcome(Db({IF r.id = id THEN [r EXCEPT !.read = 1] ELSE r :
                            r \in db.rows}, db.seq),
                     <<ValueOf(row)>>, ServerError)

GetMessageResult(db, id) ==
    LET row == SelectById(db, id)
    IN  IF row = {} THEN Outcome(db, <<>>, NotFound)
        ELSE LET out == RowToDict(ValueOf(row))
             IN  Outcome(db, <<ValueOf(row)>>,
                         IF out.raised THEN ServerError
                         ELSE Response(200, <<out.value>>, 0))

GetMessage ==
    /\ Ready
    /\ \E id \in 1..MaxId :
        Handle([op |-> "get", id |-> id], GetMessageResult(Db(table, seq), id))

(* DELETE /api/messages/{message_id} *)

\* DELETE FROM sms_messages WHERE id <= ?
ExecDeleteUpTo(db, id) == Db({r \in db.rows : r.id > id}, db.seq)

\* DELETE FROM sms_messages WHERE id = ?
ExecDelete(db, id) == Db({r \in db.rows : r.id # id}, db.seq)

\* cursor.rowcount: the rows the statement changed
RowCount(before, after) == Cardinality(before.rows \ after.rows)

DeleteMessageResult(db, id) ==
    LET after == ExecDelete(db, id)
    IN  IF RowCount(db, after) = 0 THEN Outcome(after, <<>>, NotFound)
        ELSE Outcome(after, <<>>, Response(200, <<>>, 0))

DeleteMessage ==
    /\ Ready
    /\ \E id \in 1..MaxId :
        Handle([op |-> "delete", id |-> id], DeleteMessageResult(Db(table, seq), id))

(* DELETE /api/messages *)

\* DELETE FROM sms_messages
ExecDeleteAll(db) == Db({}, db.seq)

\* the count taken from the table as the DELETE left it
DeleteAllCountsWhatIsLeft(db) ==
    LET after == ExecDeleteAll(db)
    IN  Outcome(after, <<>>, Response(200, <<>>, Count(after.rows)))

DeleteAllMessagesResult(db) ==
    LET after == ExecDeleteAll(db)
    IN  Outcome(after, <<>>, Response(200, <<>>, RowCount(db, after)))

DeleteAllMessages ==
    /\ Ready
    /\ Handle([op |-> "deleteAll"], DeleteAllMessagesResult(Db(table, seq)))

(* GET /api/stats: four SELECT COUNT statements *)

\* the second statement with WHERE read = 1: the read ones counted as unread
StatsCountingRead(t) ==
    [total_messages |-> Count(t),
     unread_messages |-> Count({r \in t : r.read = 1}),
     received_messages |-> Count({r \in t : r.type = 1}),
     sent_messages |-> Count({r \in t : r.type = 2})]

StatsOf(t) ==
    [total_messages |-> Count(t),
     unread_messages |-> Count({r \in t : r.read = 0}),
     received_messages |-> Count({r \in t : r.type = 1}),
     sent_messages |-> Count({r \in t : r.type = 2})]

GetStatisticsResult(db) == Outcome(db, <<>>, Response(200, <<StatsOf(db.rows)>>, 0))

GetStatistics ==
    /\ Ready
    /\ Handle([op |-> "stats"], GetStatisticsResult(Db(table, seq)))

-----------------------------------------------------------------------------
(* Result sets.  ORDER BY names one column; the order of rows that agree   *)
(* on it is the engine's choice, so every order that respects the column   *)
(* is a possible result.                                                   *)

\* ORDER BY key DESC: first a row with the largest key, then the others
RECURSIVE OrderByDesc(_, _)
OrderByDesc(S, key) ==
    IF S = {} THEN {<<>>}
    ELSE UNION {{<<x>> \o rest : rest \in OrderByDesc(S \ {x}, key)} :
                   x \in {y \in S : \A z \in S : key[z] <= key[y]}}

\* ORDER BY key ASC: first a row with the smallest key, then the others
RECURSIVE OrderByAsc(_, _)
OrderByAsc(S, key) ==
    IF S = {} THEN {<<>>}
    ELSE UNION {{<<x>> \o rest : rest \in OrderByAsc(S \ {x}, key)} :
                   x \in {y \in S : \A z \in S : key[y] <= key[z]}}

Min(a, b) == IF a < b THEN a ELSE b

\* LIMIT ? + 1: one row more than asked for
LimitOffsetOneMore(rows, limit, offset) ==
    LET skip == IF offset < 0 THEN 0 ELSE offset
        last == IF limit < 0 THEN Len(rows) ELSE Min(Len(rows), skip + limit + 1)
    IN  SubSeq(rows, skip + 1, last)

\* LIMIT ? OFFSET ? as SQLite applies them: a negative LIMIT is no limit, a
\* negative OFFSET is no offset
LimitOffset(rows, limit, offset) ==
    LET skip == IF offset < 0 THEN 0 ELSE offset
        last == IF limit < 0 THEN Len(rows) ELSE Min(Len(rows), skip + limit)
    IN  SubSeq(rows, skip + 1, last)

DateOf(S) == [r \in S |-> r.date]

(* GET /api/messages?limit&offset&type&unread *)

\* WHERE 1=1 [AND type = ?] [AND read = ?]
Where(r, type, unread) ==
    /\ Given(type) => r.type = ValueOf(type)
    /\ Given(unread) => r.read = (IF ValueOf(unread) THEN 0 ELSE 1)

\* the rows the SELECT may yield:
\* SELECT * FROM sms_messages WHERE ... ORDER BY date DESC LIMIT ? OFFSET ?
SelectMessages(db, args) ==
    {LimitOffset(ordered, OrDefault(args.limit, DefaultLimit),
                 OrDefault(args.offset, DefaultOffset)) :
        ordered \in LET selected == {r \in db.rows : Where(r, args.type, args.unread)}
                    IN  OrderByDesc(selected, DateOf(selected))}

GetMessagesResult(db, rows) ==
    LET out == RowsToDicts(rows)
    IN  Outcome(db, rows, IF out.raised THEN ServerError
                          ELSE Response(200, out.value, 0))

\* the query strings the clients send: filters with the default page, and
\* pages with and without a type filter
ListArgs ==
    [limit : {{}}, offset : {{}}, type : Optional(Types), unread : Optional(BOOLEAN)]
    \cup [limit : Optional(LimitArgs), offset : Optional(OffsetArgs),
          type : {{}, {1}}, unread : {{}}]

GetMessagesIn(Args) ==
    /\ Ready
    /\ \E args \in Args :
        \E rows \in SelectMessages(Db(table, seq), args) :
            Handle([op |-> "list", args |-> args],
                   GetMessagesResult(Db(table, seq), rows))

GetMessages == GetMessagesIn(ListArgs)

\* the same request sent again while nothing else happened
GetMessagesAgain ==
    /\ req.op = "list"
    /\ \E rows \in SelectMessages(Db(table, seq), req.args) :
          LET r == GetMessagesResult(Db(table, seq), rows)
          IN  /\ fetched' = r.fetched
              /\ resp' = r.resp
    /\ UNCHANGED <<table, seq, columns, clock, req, handlers, handles>>

(* GET /api/conversations *)

\* the same query with SUM(CASE WHEN read = 1 ...): the read ones counted
GroupByAddressCountingRead(t) ==
    {[address |-> a,
      last_message_date |-> MaxOf({r.date : r \in {x \in t : x.address = a}}),
      message_count |-> Count({r \in t : r.address = a}),
      unread_count |-> Count({r \in t : r.address = a /\ r.read = 1})] :
        a \in {r.address : r \in t}}

\* SELECT address, MAX(date), COUNT, SUM(CASE WHEN read = 0 ...) ... GROUP BY address
GroupByAddress(t) ==
    {[address |-> a,
      last_message_date |-> MaxOf({r.date : r \in {x \in t : x.address = a}}),
      message_count |-> Count({r \in t : r.address = a}),
      unread_count |-> Count({r \in t : r.address = a /\ r.read = 0})] :
        a \in {r.address : r \in t}}

LastDateOf(S) == [c \in S |-> c.last_message_date]

\* ... ORDER BY last_message_date DESC
SelectConversations(db) ==
    LET groups == GroupByAddress(db.rows)
    IN  OrderByDesc(groups, LastDateOf(groups))

GetConversationsResult(db, rows) == Outcome(db, rows, Response(200, rows, 0))

GetConversations ==
    /\ Ready
    /\ \E rows \in SelectConversations(Db(table, seq)) :
        Handle([op |-> "conversations"], GetConversationsResult(Db(table, seq), rows))

(* GET /api/conversation/{address} *)

\* SELECT * FROM sms_messages WHERE address = ? ORDER BY date ASC
SelectConversation(db, address) ==
    LET selected == {r \in db.rows : r.address = address}
    IN  OrderByAsc(selected, DateOf(selected))

GetConversationResult(db, rows) ==
    LET out == RowsToDicts(rows)
    IN  Outcome(db, rows, IF out.raised THEN ServerError
                          ELSE Response(200, out.value, 0))

\* the addresses the clients ask for: the stored ones and one that never is
AddressArgs == Addresses \cup {"MOM"}

GetConversation ==
    /\ Ready
    /\ \E address \in AddressArgs :
        \E rows \in SelectConversation(Db(table, seq), address) :
            Handle([op |-> "conversation", address |-> address],
                   GetConversationResult(Db(table, seq), rows))

-----------------------------------------------------------------------------
(* The request bodies as they arrive.  FastAPI validates a JSON body       *)
(* against class SmsMessage before it calls the handler: a field declared  *)
(* without a default is required, and a body that lacks one is answered    *)
(* 422 without the handler being run.  type is declared int and nothing    *)
(* else: any integer passes, and the table has no CHECK on the column.     *)

\* directions the clients send: 1 = Received, and one that is neither 1 nor 2
WireTypes == {1, 7}

\* a JSON object: each key present or not
WireMessage ==
    [address : Optional({"Mom"}), body : Optional(Bodies),
     date : Optional({1}), read : Optional({TRUE}),
     type : Optional(WireTypes), device_id : Optional(DeviceIds)]

\* the fields of SmsMessage declared without a default
RequiredFields == {"address", "body", "date", "type", "device_id"}

Missing(body) == {f \in RequiredFields : ~Given(body[f])}

\* the bodies posted: complete ones and those that lack one required field
WireBodies == {b \in WireMessage : Cardinality(Missing(b)) <= 1}

\* the elements of the batches posted
BulkWireBodies ==
    {b \in WireBodies : /\ b.read = {}
                        /\ b.type = {1}
                        /\ Missing(b) \subseteq {"address", "device_id"}}

\* the SmsMessage object made of a body that passed validation
Parsed(body) ==
    [address |-> ValueOf(body.address), body |-> ValueOf(body.body),
     date |-> ValueOf(body.date), read |-> body.read,
     type |-> ValueOf(body.type), device_id |-> ValueOf(body.device_id)]

\* RequestValidationError: 422 Unprocessable Entity
Unprocessable == Response(422, <<>>, 0)

PostMessageResult(db, body, now, fault) ==
    IF Missing(body) # {} THEN Outcome(db, <<>>, Unprocessable)
    ELSE CreateMessageResult(db, Parsed(body), now, fault)

PostMessage ==
    /\ Ready
    /\ seq < MaxId
    /\ \E body \in WireBodies, fault \in BOOLEAN :
          Handle([op |-> "post", body |-> body, fault |-> fault],
                 PostMessageResult(Db(table, seq), body, clock, fault))

\* the elements of a batch that are complete
RECURSIVE ValidOnes(_)
ValidOnes(bodies) ==
    IF bodies = <<>> THEN <<>>
    ELSE IF Missing(Head(bodies)) = {} THEN <<Head(bodies)>> \o ValidOnes(Tail(bodies))
         ELSE ValidOnes(Tail(bodies))

\* a handler that takes the raw list and stores the elements that validate
PostBulkStoresValidOnes(db, bodies, now, faultAt) ==
    LET valid == ValidOnes(bodies)
    IN  CreateMessagesBulkResult(db, [i \in 1..Len(valid) |-> Parsed(valid[i])],
                                 now, {})

\* messages: List[SmsMessage]: one element that fails fails the request
PostMessagesBulkResult(db, bodies, now, faultAt) ==
    IF \E i \in 1..Len(bodies) : Missing(bodies[i]) # {}
    THEN Outcome(db, <<>>, Unprocessable)
    ELSE CreateMessagesBulkResult(db, [i \in 1..Len(bodies) |-> Parsed(bodies[i])],
                                  now, faultAt)

PostMessagesBulk ==
    /\ Ready
    /\ \E n \in 0..MaxBulk :
        /\ seq + n <= MaxId
        /\ \E bodies \in [1..n -> BulkWireBodies], faultAt \in Optional(0..n) :
              Handle([op |-> "postBulk", bodies |-> bodies, faultAt |-> faultAt],
                     PostMessagesBulkResult(Db(table, seq), bodies, clock, faultAt))

-----------------------------------------------------------------------------
(* init_db, run at every startup on whatever database file is there: no    *)
(* table, a table made before device_id existed, or a table that has it.   *)
(* The indexes it creates (IF NOT EXISTS) hold no data of their own and    *)
(* are not part of the state.                                              *)

\* CREATE TABLE IF NOT EXISTS: a table that exists keeps its columns
CreateTableIfNotExists(cols) == IF cols = {} THEN LegacyColumns ELSE cols

\* ALTER TABLE ... ADD COLUMN name ... NOT NULL DEFAULT default: every row
\* that is there reads the default in the new column
AddColumn(rows, name, default) ==
    {[c \in DOMAIN r \cup {name} |-> IF c = name THEN default ELSE r[c]] :
        r \in rows}

\* a migration that writes the sentinel at every start:
\* UPDATE sms_messages SET device_id = 'unknown'
InitDbResetsDeviceId(db, cols) ==
    [db |-> Db(AddColumn(db.rows, "device_id", "unknown"), db.seq),
     columns |-> CreateTableIfNotExists(cols) \cup {"device_id"}]

InitDbResult(db, cols) ==
    LET created == CreateTableIfNotExists(cols)
    IN  IF "device_id" \notin created
        THEN [db |-> Db(AddColumn(db.rows, "device_id", "unknown"), db.seq),
              columns |-> created \cup {"device_id"}]
        ELSE [db |-> db, columns |-> created]

\* the server (re)starts
InitDb ==
    /\ req.op = "idle"
    /\ LET r == InitDbResult(Db(table, seq), columns)
       IN  /\ table' = r.db.rows
           /\ seq' = r.db.seq
           /\ columns' = r.columns
    /\ req' = [op |-> "init"]
    /\ fetched' = <<>>
    /\ resp' = NoResponse
    /\ UNCHANGED <<clock, handlers, handles>>

\* a row of a table without device_id
LegacyRows(ids) ==
    [id : ids, address : {"Mom"}, body : Bodies, date : {1}, read : {0, 1},
     type : {1}, created_at : {0}]

\* The database file a start may find: none, or a store made before
\* device_id existed that assigned some ids and still holds some of the rows.
InitStored ==
    /\ \/ /\ columns = {}
          /\ seq = 0
          /\ table = {}
       \/ /\ columns = LegacyColumns
          /\ seq \in 0..MaxLegacy
          /\ table \in {t \in SUBSET LegacyRows(1..seq) :
                            \A r1, r2 \in t : r1.id = r2.id => r1 = r2}
    /\ clock = 0
    /\ req = Idle
    /\ fetched = <<>>
    /\ resp = NoResponse
    /\ handlers = NoHandlers
    /\ handles = {}

-----------------------------------------------------------------------------
(* The handlers statement by statement.  A handler is a coroutine without  *)
(* an await: inside one server process it runs from its first statement to *)
(* its last before the next request is looked at.  Processes that serve    *)
(* the same database file (the workers of one deployment) do interleave,   *)
(* one statement at a time: every execute is its own read, every commit    *)
(* its own write, and SQLite orders the writes.  Each handler opens its    *)
(* connection in get_db and get_db closes it in its finally clause,        *)
(* whether the with-block is left by return or by an exception.            *)

\* the requests the processes take
StepMessage ==
    [address |-> "Mom", body |-> "hi", date |-> 1, read |-> {}, type |-> 1,
     device_id |-> "dev1"]

StepRequests ==
    {[op |-> "stats"], [op |-> "deleteAll"],
     [op |-> "create", message |-> StepMessage]}
    \cup {[op |-> "delete", id |-> id] : id \in 1..MaxStepId}

\* conn = sqlite3.connect(DB_PATH)
Connect(open, p) == open \cup {p}

\* conn.close() after the yield, without try/finally: skipped by an exception
CloseOnReturn(open, p, raised) == IF raised THEN open ELSE open \ {p}

\* finally: conn.close()
Close(open, p, raised) == open \ {p}

\* the first statement of each handler's with-block
FirstStatement(request) ==
    CASE request.op = "stats" -> "total"
      [] request.op = "create" -> "insert"
      [] request.op = "delete" -> "delete"
      [] request.op = "deleteAll" -> "deleteAll"

\* creates that have not inserted yet
PendingInserts == {q \in Procs : handlers[q].pc = "insert"}

\* for the record (read by no statement): what the four statements of a
\* stats request give when all of them run on the same state of the table,
\* for every state the table is in while the request is counting
Written(h, t) ==
    IF h.pc \in {"total", "unread", "received", "sent"}
    THEN [h EXCEPT !.seen = @ \cup {StatsOf(t)}] ELSE h

\* the handler's local variables after a step that touched none of the table
Continue(p, h) ==
    /\ handlers' = [handlers EXCEPT ![p] = h]
    /\ UNCHANGED <<table, seq, handles, columns, clock, req, fetched, resp>>

\* conn.commit(): the write of process p becomes the table every process reads
Commit(p, h, db) ==
    /\ table' = db.rows
    /\ seq' = db.seq
    /\ handlers' = [q \in Procs |-> IF q = p THEN h
                                     ELSE Written(handlers[q], db.rows)]
    /\ UNCHANGED <<handles, columns, clock, req, fetched, resp>>

\* with get_db() as conn: cursor = conn.cursor()
Enter(p) ==
    \E request \in StepRequests :
        /\ columns = Columns
        /\ handlers[p].pc = "idle"
        /\ request.op = "create" => seq + Cardinality(PendingInserts) < MaxStepId
        /\ handlers' = [handlers EXCEPT ![p] =
              [pc |-> FirstStatement(request), request |-> request,
               raised |-> FALSE, resp |-> NoResponse,
               seen |-> IF request.op = "stats" THEN {StatsOf(table)} ELSE {}]]
        /\ handles' = Connect(handles, p)
        /\ UNCHANGED <<table, seq, columns, clock, req, fetched, resp>>

\* get_statistics: one SELECT COUNT, fetchone()["count"]
StatsTotal(p) ==
    /\ handlers[p].pc = "total"
    /\ Continue(p, [pc |-> "unread", request |-> handlers[p].request,
                    raised |-> FALSE, resp |-> NoResponse,
                    seen |-> handlers[p].seen,
                    total |-> StatsOf(table).total_messages])

StatsUnread(p) ==
    /\ handlers[p].pc = "unread"
    /\ Continue(p, [pc |-> "received", request |-> handlers[p].request,
                    raised |-> FALSE, resp |-> NoResponse,
                    seen |-> handlers[p].seen,
                    total |-> handlers[p].total,
                    unread |-> StatsOf(table).unread_messages])

StatsReceived(p) ==
    /\ handlers[p].pc = "received"
    /\ Continue(p, [pc |-> "sent", request |-> handlers[p].request,
                    raised |-> FALSE, resp |-> NoResponse,
                    seen |-> handlers[p].seen,
                    total |-> handlers[p].total,
                    unread |-> handlers[p].unread,
                    received |-> StatsOf(table).received_messages])

\* the fourth SELECT and the return of the dict
StatsSent(p) ==
    /\ handlers[p].pc = "sent"
    /\ Continue(p, [pc |-> "exit", request |-> handlers[p].request,
                    raised |-> FALSE, seen |-> handlers[p].seen,
                    resp |-> Response(200,
                        <<[total_messages |-> handlers[p].total,
                           unread_messages |-> handlers[p].unread,
                           received_messages |-> handlers[p].received,
                           sent_messages |-> StatsOf(table).sent_messages]>>,
                        0)])

\* what a handler leaves the with-block with
Leaving(h, raised, response) ==
    [pc |-> "exit", request |-> h.request, raised |-> raised,
     resp |-> response, seen |-> h.seen]

\* create_message: cursor.execute(INSERT ...); conn.commit();
\* message_id = cursor.lastrowid  (or the storage layer fails)
CreateInsert(p) ==
    \E fault \in BOOLEAN :
        /\ handlers[p].pc = "insert"
        /\ IF fault THEN Continue(p, Leaving(handlers[p], TRUE, ServerError))
           ELSE LET txn == ExecInsert(Db(table, seq),
                                      Validated(handlers[p].request.message), clock)
                IN  Commit(p, [pc |-> "select", request |-> handlers[p].request,
                               raised |-> FALSE, resp |-> NoResponse,
                               seen |-> handlers[p].seen,
                               message_id |-> LastRowId(txn)], txn)

\* cursor.execute(SELECT ... WHERE id = ?); row = cursor.fetchone()
CreateSelect(p) ==
    /\ handlers[p].pc = "select"
    /\ Continue(p, [pc |-> "return", request |-> handlers[p].request,
                    raised |-> FALSE, resp |-> NoResponse,
                    seen |-> handlers[p].seen,
                    message_id |-> handlers[p].message_id,
                    row |-> SelectById(Db(table, seq), handlers[p].message_id)])

\* return {"id": row["id"], ...}: row is None when the row is gone (TypeError),
\* and row.get raises when it is there
CreateReturn(p) ==
    /\ handlers[p].pc = "return"
    /\ LET row == handlers[p].row
       IN  IF row = {} THEN Continue(p, Leaving(handlers[p], TRUE, ServerError))
           ELSE LET out == RowToDict(ValueOf(row))
                IN  IF out.raised
                    THEN Continue(p, Leaving(handlers[p], TRUE, ServerError))
                    ELSE Continue(p, Leaving(handlers[p], FALSE,
                                             Response(201, <<out.value>>, 0)))

\* delete_message: cursor.execute(DELETE ... WHERE id = ?); conn.commit()
DeleteExec(p) ==
    /\ handlers[p].pc = "delete"
    /\ LET after == ExecDelete(Db(table, seq), handlers[p].request.id)
       IN  Commit(p, [pc |-> "check", request |-> handlers[p].request,
                      raised |-> FALSE, resp |-> NoResponse,
                      seen |-> handlers[p].seen,
                      rowcount |-> RowCount(Db(table, seq), after)], after)

\* the handler without the rowcount test: return {...} whatever was deleted
DeleteReportsSuccess(p) ==
    /\ handlers[p].pc = "check"
    /\ Continue(p, Leaving(handlers[p], FALSE, Response(200, <<>>, 0)))

\* if cursor.rowcount == 0: raise HTTPException(404); return {...}
DeleteCheck(p) ==
    /\ handlers[p].pc = "check"
    /\ IF handlers[p].rowcount = 0
       THEN Continue(p, Leaving(handlers[p], TRUE, NotFound))
       ELSE Continue(p, Leaving(handlers[p], FALSE, Response(200, <<>>, 0)))

\* delete_all_messages: cursor.execute(DELETE); conn.commit(); return
DeleteAllExec(p) ==
    /\ handlers[p].pc = "deleteAll"
    /\ LET after == ExecDeleteAll(Db(table, seq))
       IN  Commit(p, Leaving(handlers[p], FALSE,
                             Response(200, <<>>, RowCount(Db(table, seq), after))),
                  after)

\* the with-block is left: get_db goes on after its yield, and the response
\* or the exception goes to the framework
Exit(p) ==
    /\ handlers[p].pc = "exit"
    /\ handles' = Close(handles, p, handlers[p].raised)
    /\ handlers' = [handlers EXCEPT ![p] = IdleHandler]
    /\ UNCHANGED <<table, seq, columns, clock, req, fetched, resp>>

-----------------------------------------------------------------------------
(* The store with its create, read, delete and statistics requests *)

Next ==
    \/ Tick
    \/ ReturnResponse
    \/ CreateMessage
    \/ CreateMessagesBulk
    \/ GetMessage
    \/ DeleteMessage
    \/ DeleteAllMessages
    \/ GetStatistics

Spec == Init /\ [][Next]_vars

(* The store with the filtered, ordered, paginated list *)

CreateListed == CreateMessageIn(ListInputs)

NextList ==
    \/ ReturnResponse
    \/ CreateListed
    \/ DeleteMessage
    \/ GetMessages
    \/ GetMessagesAgain

SpecList == Init /\ [][NextList]_vars

(* The store with the conversation views *)

CreateConversed == CreateMessageIn(ConvInputs)

NextConv ==
    \/ ReturnResponse
    \/ CreateConversed
    \/ DeleteMessage
    \/ GetConversations
    \/ GetConversation

SpecConv == Init /\ [][NextConv]_vars

(* The store behind request validation *)

NextWire ==
    \/ ReturnResponse
    \/ PostMessage
    \/ PostMessagesBulk
    \/ DeleteMessage

SpecWire == Init /\ [][NextWire]_vars

(* The store across restarts, from whatever database file is found *)

InitInputs == SmsMessage({"Mom"}, {1}, {1})

CreateMigrated == CreateMessageIn(InitInputs)

CreateMigratedBulk == CreateMessagesBulkIn(InitInputs)

NextInit ==
    \/ ReturnResponse
    \/ InitDb
    \/ CreateMigrated
    \/ CreateMigratedBulk
    \/ GetMessage
    \/ DeleteMessage
    \/ DeleteAllMessages

SpecInit == InitStored /\ [][NextInit]_vars

(* The store served by several processes, statement by statement.  A      *)
(* handler that has started is run to its end: its process does nothing    *)
(* else meanwhile.                                                         *)

Run(p) ==
    \/ StatsTotal(p)
    \/ StatsUnread(p)
    \/ StatsReceived(p)
    \/ StatsSent(p)
    \/ CreateInsert(p)
    \/ CreateSelect(p)
    \/ CreateReturn(p)
    \/ DeleteExec(p)
    \/ DeleteCheck(p)
    \/ DeleteAllExec(p)
    \/ Exit(p)

NextSteps == \E p \in Procs : Enter(p) \/ Run(p)

SpecSteps == Init /\ [][NextSteps]_vars /\ \A p \in Procs : WF_vars(Run(p))

(* The statistics of the store behind request validation *)

NextStats ==
    \/ ReturnResponse
    \/ PostMessage
    \/ DeleteMessage
    \/ GetStatistics

SpecStats == Init /\ [][NextStats]_vars

(* The list with any integer as limit and offset: limit: Optional[int] and *)
(* offset: Optional[int] are declared without a range, and the handler     *)
(* binds them to LIMIT ? OFFSET ? as they come.                            *)

PageLimits == {-1, 0, 1, 2}

PageOffsets == {-1, 0, 1}

PageArgs ==
    [limit : Optional(PageLimits), offset : Optional(PageOffsets),
     type : {{}}, unread : {{}}]

PageInputs ==
    [address : {"Mom"}, body : Bodies, date : Dates, read : {{}}, type : {1},
     device_id : DeviceIds]

CreatePaged == CreateMessageIn(PageInputs)

GetPage == GetMessagesIn(PageArgs)

NextPage ==
    \/ ReturnResponse
    \/ CreatePaged
    \/ DeleteMessage
    \/ GetPage

SpecPage == Init /\ [][NextPage]_vars

-----------------------------------------------------------------------------
(* What the interface promises, in the vocabulary of its clients *)

\* the JSON message a client expects for a stored row
MessageOf(r) ==
    [id |-> r.id, address |-> r.address, body |-> r.body, date |-> r.date,
     read |-> (r.read = 1), type |-> r.type, device_id |-> r.device_id,
     created_at |-> r.created_at]

\* the filters of a list request, read as the interface documents them
Selected(t, args) ==
    {r \in t : /\ Given(args.type) => r.type = ValueOf(args.type)
               /\ args.unread = {TRUE} => r.read = 0
               /\ args.unread = {FALSE} => r.read = 1}

IdsIn(items) == [i \in DOMAIN items |-> items[i].id]

NewestFirst(items) ==
    \A i, j \in DOMAIN items : i < j => items[i].date >= items[j].date

OldestFirst(items) ==
    \A i, j \in DOMAIN items : i < j => items[i].date <= items[j].date

NoStats ==
    [total_messages |-> 0, unread_messages |-> 0,
     received_messages |-> 0, sent_messages |-> 0]

(* C1: create followed by get(id) returns the input message (read = false  *)
(* when omitted) with the assigned id and created_at: a create without a   *)
(* storage fault answers 201 with that message, and get of a stored id     *)
(* answers 200 with the stored message.                                    *)
C1_CreateThenGet ==
    /\ (req.op = "create" /\ ~req.fault) =>
          /\ resp.status = 201
          /\ resp.items =
                <<[id |-> seq, address |-> req.message.address,
                   body |-> req.message.body, date |-> req.message.date,
                   read |-> (req.message.read = {TRUE}),
                   type |-> req.message.type,
                   device_id |-> req.message.device_id,
                   created_at |-> clock]>>
    /\ (req.op = "get" /\ req.id \in Ids(table)) =>
          /\ resp.status = 200
          /\ resp.items = <<MessageOf(CHOOSE r \in table : r.id = req.id)>>

(* C2: createBulk is all-or-nothing: it either answers 201 with count = n  *)
(* and stats().total grown by exactly n, every old row kept, or, when the  *)
(* store fails at any point of the batch, answers an error and leaves the  *)
(* collection and stats().total as they were.                              *)
C2_BulkAllOrNothing ==
    [][(Ready /\ req'.op = "bulk") =>
          LET n == Len(req'.messages)
          IN  IF Given(req'.faultAt)
              THEN /\ resp'.status = 500
                   /\ table' = table
                   /\ StatsOf(table').total_messages = StatsOf(table).total_messages
              ELSE /\ resp'.status = 201
                   /\ resp'.count = n
                   /\ table \subseteq table'
                   /\ StatsOf(table').total_messages
                         = StatsOf(table).total_messages + n]_vars

\* a batch of two failed after its first row went in, in a store that held rows
C2_Witness ==
    /\ req.op = "bulk"
    /\ Len(req.messages) = 2
    /\ req.faultAt = {1}
    /\ resp.status = 500
    /\ table # {}

(* C3: list with the default page answers with exactly the stored messages *)
(* that satisfy every filter given: direction, unread, both or none.       *)
C3_ListSelectsByFilters ==
    (req.op = "list" /\ ~Given(req.args.limit) /\ ~Given(req.args.offset)) =>
        /\ resp.status = 200
        /\ {resp.items[i].id : i \in DOMAIN resp.items}
              = Ids(Selected(table, req.args))
        /\ Len(resp.items) = Cardinality(Selected(table, req.args))

C6_ListPaginates ==
    req.op = "list" =>
        LET limit == OrDefault(req.args.limit, 100)
            offset == OrDefault(req.args.offset, 0)
            matching == Selected(table, req.args)
        IN  (limit >= 0 /\ offset >= 0) =>
                /\ resp.status = 200
                /\ \E full \in OrderByDesc(matching, DateOf(matching)) :
                      IdsIn(resp.items)
                         = IdsIn(SubSeq(full, offset + 1,
                                        Min(Len(full), offset + limit)))

(* C7: getConversation(address) answers with exactly the stored messages   *)
(* whose address equals the argument, oldest first, and with the empty     *)
(* sequence for an address no message has.                                 *)
C7_ConversationThread ==
    req.op = "conversation" =>
        LET thread == {r \in table : r.address = req.address}
        IN  /\ resp.status = 200
            /\ {resp.items[i].id : i \in DOMAIN resp.items} = Ids(thread)
            /\ Len(resp.items) = Cardinality(thread)
            /\ OldestFirst(resp.items)

(* C8: delete of an id no row has answers 404 and leaves the collection    *)
(* unchanged; delete of an existing id answers 200 and removes that row    *)
(* and no other; an id that was removed never names a row again, and get   *)
(* of an id that names no row answers 404.                                 *)
C8_Delete ==
    [][/\ (Ready /\ req'.op = "delete") =>
             IF req'.id \in Ids(table)
             THEN /\ resp'.status = 200
                  /\ table' = {r \in table : r.id # req'.id}
                  /\ Cardinality(table') = Cardinality(table) - 1
             ELSE /\ resp'.status = 404
                  /\ table' = table
       /\ \A id \in 1..seq : id \notin Ids(table) => id \notin Ids(table')
       /\ (Ready /\ req'.op = "get" /\ req'.id \notin Ids(table')) =>
             resp'.status = 404]_vars

\* get answered 404 for an id that was assigned while an older row is still
\* stored: the id was removed by delete(id), not by deleteAll
C8_Witness ==
    /\ req.op = "get"
    /\ req.id <= seq
    /\ req.id \notin Ids(table)
    /\ \E r \in table : r.id < req.id
    /\ resp.status = 404

(* C9: deleteAll answers 200 in every state with count = the rows stored   *)
(* just before it (0 when there were none) and empties the collection;     *)
(* the collection stays empty until an insert, and stats on the empty      *)
(* collection answers total = unread = received = sent = 0.                *)
C9_DeleteAllThenStats ==
    [][/\ (Ready /\ req'.op = "deleteAll") =>
             /\ resp'.status = 200
             /\ resp'.count = Cardinality(table)
             /\ table' = {}
       /\ (table = {} /\ table' # {}) => req'.op \in {"create", "bulk"}
       /\ (Ready /\ req'.op = "stats" /\ table = {}) =>
             /\ resp'.status = 200
             /\ resp'.items = <<NoStats>>]_vars

\* deleteAll removed two rows and said so
C9_Witness ==
    /\ req.op = "deleteAll"
    /\ resp.status = 200
    /\ resp.count = 2
    /\ table = {}

(* C10: listConversations answers with one entry per address that occurs   *)
(* in a stored message and no other entry; each entry counts the messages  *)
(* of its address, gives their largest timestamp and counts those with     *)
(* read = false; entries come in descending order of that timestamp.       *)
C10_Conversations ==
    req.op = "conversations" =>
        /\ resp.status = 200
        /\ {resp.items[i].address : i \in DOMAIN resp.items}
              = {r.address : r \in table}
        /\ Len(resp.items) = Cardinality({r.address : r \in table})
        /\ \A i \in DOMAIN resp.items :
              LET c == resp.items[i]
                  mine == {r \in table : r.address = c.address}
              IN  /\ c.message_count = Cardinality(mine)
                  /\ c.message_count >= 1
                  /\ c.last_message_date \in {r.date : r \in mine}
                  /\ \A r \in mine : r.date <= c.last_message_date
                  /\ c.unread_count = Cardinality({r \in mine : r.read = 0})
        /\ \A i, j \in DOMAIN resp.items :
              i < j => resp.items[i].last_message_date
                          >= resp.items[j].last_message_date

\* two conversations, the one with two messages and the later timestamp first
C10_Witness ==
    /\ req.op = "conversations"
    /\ Len(resp.items) = 2
    /\ resp.items[1].message_count = 2
    /\ resp.items[1].unread_count = 1
    /\ resp.items[2].message_count = 1
    /\ resp.items[1].last_message_date > resp.items[2].last_message_date

\* how many elements of a batch satisfy P, and how many rows of a set do
HowMany(messages, P(_)) == Cardinality({i \in DOMAIN messages : P(messages[i])})

IsUnreadMessage(m) == m.read # {TRUE}

IsReceivedMessage(m) == m.type = 1

IsSentMessage(m) == m.type = 2

(* C11: stats answers 200 with total = the number of stored messages,      *)
(* unread = those with read = false, received = those with direction 1 and *)
(* sent = those with direction 2, counted on the collection as it is when  *)
(* the request arrives, and leaves the collection alone; a bulk insert     *)
(* adds to the collection exactly the composition of its input: as many    *)
(* rows as messages, as many unread rows as messages with read false or    *)
(* omitted, as many rows of each direction as messages of it.              *)
C11_StatsCounts ==
    [][/\ (Ready /\ req'.op = "stats") =>
             /\ table' = table
             /\ resp'.status = 200
             /\ resp'.items =
                   <<[total_messages |-> Cardinality(table),
                      unread_messages |->
                          Cardinality({r \in table : ~MessageOf(r).read}),
                      received_messages |->
                          Cardinality({r \in table : MessageOf(r).type = 1}),
                      sent_messages |->
                          Cardinality({r \in table : MessageOf(r).type = 2})]>>
       /\ (Ready /\ req'.op = "bulk" /\ ~Given(req'.faultAt)) =>
             LET added == table' \ table
                 batch == req'.messages
             IN  /\ table \subseteq table'
                 /\ Cardinality(added) = Len(batch)
                 /\ Cardinality({r \in added : ~MessageOf(r).read})
                       = HowMany(batch, IsUnreadMessage)
                 /\ Cardinality({r \in added : MessageOf(r).type = 1})
                       = HowMany(batch, IsReceivedMessage)
                 /\ Cardinality({r \in added : MessageOf(r).type = 2})
                       = HowMany(batch, IsSentMessage)]_vars

\* stats over three stored messages of both directions, some read, some not
C11_Witness ==
    /\ req.op = "stats"
    /\ resp.status = 200
    /\ resp.items[1].total_messages = 3
    /\ resp.items[1].unread_messages = 1
    /\ resp.items[1].received_messages = 2
    /\ resp.items[1].sent_messages = 1

(* C12: every id the store assigns is larger than every id it assigned     *)
(* before, whether the row of that id is still stored or was removed by    *)
(* delete or deleteAll: the rows a request adds carry the ids that follow  *)
(* the largest id assigned so far, one after the other, and no stored row  *)
(* has an id beyond it.                                                    *)
C12_IdsNeverReused ==
    [][/\ seq <= seq'
       /\ \A r \in table : r.id <= seq
       /\ \A r \in table' \ table : \A id \in 1..seq : r.id # id
       /\ Ids(table' \ table) = (seq + 1)..seq'
       /\ Cardinality(table' \ table) = seq' - seq]_vars

\* a message created after every earlier one was removed: its id is the third
C12_Witness ==
    /\ req.op = "create"
    /\ resp.status # 0
    /\ ~req.fault
    /\ seq = 3
    /\ Ids(table) = {3}

(* C13: every stored message has direction 1 or 2: create and createBulk   *)
(* accept no message with any other direction.                             *)
C13_DirectionIsOneOrTwo == \A r \in table : r.type \in {1, 2}

\* the fields a message must carry, as the interface documents them
MustCarry == {"address", "body", "date", "type", "device_id"}

Incomplete(body) == \E f \in MustCarry : body[f] = {}

C15_GetById ==
    [][(Ready /\ req'.op = "get") =>
          /\ table' = table
          /\ IF req'.id \in Ids(table)
             THEN /\ resp'.status = 200
                  /\ resp'.items = <<MessageOf(CHOOSE r \in table : r.id = req'.id)>>
             ELSE resp'.status = 404]_vars

(* C17: create answers success exactly when it added one row: with a valid *)
(* message and no storage fault it answers 201 and the collection has one  *)
(* row more, and a create that answers a failure has left the collection   *)
(* as it was.                                                              *)
C17_CreateSucceedsIffStored ==
    [][(Ready /\ req'.op = "create") =>
          /\ table \subseteq table'
          /\ (resp'.status = 201) <=> (Cardinality(table' \ table) = 1)
          /\ ~req'.fault => resp'.status = 201
          /\ resp'.status # 201 => table' = table]_vars

(* C14: schema initialization is additive and idempotent: run on a table   *)
(* whose rows lack device_id it leaves the same rows, none lost and none   *)
(* duplicated, every other column as it was, each with device_id =         *)
(* "unknown"; run on a store that has the column it changes no row, so a   *)
(* device_id a caller supplied is never replaced by the sentinel; and it   *)
(* never touches the id counter.                                           *)
C14_InitAdditiveIdempotent ==
    [][(req.op = "idle" /\ req'.op = "init") =>
          /\ Ids(table') = Ids(table)
          /\ Cardinality(table') = Cardinality(table)
          /\ seq' = seq
          /\ \A r \in table : \E r2 \in table' :
                /\ DOMAIN r2 = DOMAIN r \cup {"device_id"}
                /\ \A c \in DOMAIN r : r2[c] = r[c]
                /\ "device_id" \notin DOMAIN r => r2.device_id = "unknown"
          /\ "device_id" \in columns => (table' = table /\ columns' = columns)
          /\ "device_id" \in columns']_vars

\* a restart of a migrated store that holds a row from before device_id
\* existed and a row a device uploaded since
C14_Witness ==
    /\ req.op = "init"
    /\ columns = Columns
    /\ \E r \in table : r.device_id = "unknown"
    /\ \E r \in table : r.device_id = "dev1"

(* C20: no operation updates a message in place: as long as a row of some  *)
(* id is stored, every column it has keeps its value from one state to the *)
(* next, whichever request or restart makes the step.                      *)
C20_NoUpdateInPlace ==
    [][\A r \in table : \A r2 \in table' :
          r2.id = r.id => \A c \in DOMAIN r : r2[c] = r[c]]_vars

\* a row from before the migration, still stored unread after the restart,
\* two inserts, a get of it and the delete of another row
C20_Witness ==
    /\ req.op = "delete"
    /\ resp.status = 200
    /\ columns = Columns
    /\ seq = 3
    /\ \E r \in table : r.id = 1 /\ r.device_id = "unknown" /\ r.read = 0
    /\ Cardinality(table) = 2

\* the stats request of p returns: its counts are those of one of the states
\* the collection was in while the request ran
StatsOfOneState(p) ==
    (handlers[p].pc = "sent" /\ handlers'[p].pc = "exit") =>
        \E counts \in handlers'[p].seen : handlers'[p].resp.items = <<counts>>

\* the create request of p, its row inserted, returns: the answer is that row
CreateReturnsItsRow(p) ==
    (handlers[p].pc = "return" /\ handlers'[p].pc = "exit") =>
        /\ handlers'[p].resp.status = 201
        /\ Len(handlers'[p].resp.items) = 1
        /\ handlers'[p].resp.items[1].id = handlers[p].message_id

(* C18: every operation takes effect as one atomic unit also when handlers *)
(* interleave: the four counts of one stats answer are the counts of one   *)
(* single state the collection was in during the request, never a mix of   *)
(* the states before and after a concurrent write, and create answers with *)
(* the row it inserted even if a delete or deleteAll runs meanwhile.       *)
C18_AtomicWhenInterleaved ==
    [][\A p \in Procs : StatsOfOneState(p) /\ CreateReturnsItsRow(p)]_vars

(* C19: each operation opens a storage handle of its own and closes it on  *)
(* every way out, the 404 and the storage fault included: a process holds  *)
(* an open handle exactly while it runs a handler, so no handle is open    *)
(* when no operation is in progress, and every handle that is opened is    *)
(* closed in the end.                                                      *)
C19_HandlesClosed ==
    /\ [](\A p \in Procs : (p \in handles) <=> (handlers[p].pc # "idle"))
    /\ []((\A p \in Procs : handlers[p].pc = "idle") => Cardinality(handles) = 0)
    /\ \A p \in Procs : (p \in handles) ~> (p \notin handles)

\* one handler leaves by the 404 of delete and another by a storage fault,
\* both with their handles still open
C19_Witness ==
    \E p, q \in Procs :
        /\ handlers[p].pc = "exit"
        /\ handlers[p].raised
        /\ handlers[p].resp.status = 404
        /\ handlers[q].pc = "exit"
        /\ handlers[q].raised
        /\ handlers[q].request.op = "create"
        /\ handles = {p, q}

(* C21: in every state reachable through the API stats answers with        *)
(* total = received + sent and 0 <= unread <= total.                       *)
C21_StatsAddUp ==
    req.op = "stats" =>
        /\ resp.status = 200
        /\ LET counts == resp.items[1]
           IN  /\ counts.total_messages
                     = counts.received_messages + counts.sent_messages
               /\ 0 <= counts.unread_messages
               /\ counts.unread_messages <= counts.total_messages

\* the sum of one field over the entries of an answer
RECURSIVE SumOf(_, _)
SumOf(items, field) ==
    IF items = <<>> THEN 0 ELSE Head(items)[field] + SumOf(Tail(items), field)

\* the conversations answer accounts for every message once
SumsMatchStats(items, stats) ==
    /\ stats.status = 200
    /\ SumOf(items, "message_count") = stats.items[1].total_messages
    /\ SumOf(items, "unread_count") = stats.items[1].unread_messages

(* C22: the conversation aggregation partitions the collection: in every   *)
(* state the message_count of the entries of listConversations sum up to   *)
(* the total of stats, their unread_count to its unread, and each entry's  *)
(* message_count is the length of what getConversation answers for the     *)
(* entry's address in that state.                                          *)
C22_ConversationsPartition ==
    req.op = "conversations" =>
        LET db == Db(table, seq)
        IN  /\ resp.status = 200
            /\ SumsMatchStats(resp.items, GetStatisticsResult(db).resp)
            /\ \A i \in DOMAIN resp.items :
                  \A rows \in SelectConversation(db, resp.items[i].address) :
                      LET thread == GetConversationResult(db, rows).resp
                      IN  /\ thread.status = 200
                          /\ Len(thread.items) = resp.items[i].message_count

(* C23: for every integer limit and offset the list endpoint accepts, 0    *)
(* and negative values included, the number of messages list returns never *)
(* exceeds limit.                                                          *)
C23_ListWithinLimit ==
    req.op = "list" =>
        Len(resp.items) <= OrDefault(req.args.limit, 100)

Max(a, b) == IF a > b THEN a ELSE b

(* C23, amended: for every limit >= 0 and every integer offset, the number *)
(* of rows the list query yields, and with it the number of messages list  *)
(* returns, never exceeds limit; a negative limit is not rejected and      *)
(* means no limit: the query yields every matching row from offset on (a   *)
(* negative offset counting as 0).                                         *)
C23_ListWithinLimitFromZero ==
    req.op = "list" =>
        LET limit == OrDefault(req.args.limit, 100)
            offset == OrDefault(req.args.offset, 0)
            matching == Cardinality(Selected(table, req.args))
        IN  /\ limit >= 0 => /\ Len(fetched) <= limit
                             /\ Len(resp.items) <= limit
            /\ limit < 0 => Len(fetched) = Max(0, matching - Max(0, offset))
            /\ Len(resp.items) <= Len(fetched)

\* a page of one out of two stored messages
C23_Witness ==
    /\ req.op = "list"
    /\ req.args.limit = {1}
    /\ req.args.offset = {-1}
    /\ Cardinality(table) = 2
    /\ Len(fetched) = 1

\* p and q both run a delete of the same id
DeletingSame(p, q) ==
    /\ p # q
    /\ handlers[p].pc # "idle"
    /\ handlers[q].pc # "idle"
    /\ handlers[p].request.op = "delete"
    /\ handlers[q].request.op = "delete"
    /\ handlers[p].request.id = handlers[q].request.id

\* a delete that has removed its row: it is about to report, or reports, success
Succeeded(h) ==
    \/ h.pc = "check" /\ h.rowcount = 1
    \/ h.pc = "exit" /\ h.resp.status = 200

(* C24: two delete(id) requests for the same stored id that run at the     *)
(* same time, in any interleaving: the one whose DELETE comes first        *)
(* removes that row and no other and reports success, the other one        *)
(* changes nothing and reports 404 NotFound; never do both succeed.        *)
C24_ConcurrentDeletes ==
    [][\A p, q \in Procs : DeletingSame(p, q) =>
          LET id == handlers[p].request.id
              executes == handlers[p].pc = "delete" /\ handlers'[p].pc = "check"
              reports == handlers[p].pc = "check" /\ handlers'[p].pc = "exit"
          IN  /\ (executes /\ handlers[q].pc = "delete" /\ id \in Ids(table)) =>
                    /\ handlers'[p].rowcount = 1
                    /\ table' = {r \in table : r.id # id}
                    /\ Cardinality(table') = Cardinality(table) - 1
                    /\ handlers'[q] = handlers[q]
              /\ (executes /\ Succeeded(handlers[q])) =>
                    /\ handlers'[p].rowcount = 0
                    /\ table' = table
              /\ (reports /\ handlers[p].rowcount = 1) =>
                    /\ handlers'[p].resp.status = 200
                    /\ ~handlers'[p].raised
              /\ (reports /\ handlers[p].rowcount = 0) =>
                    /\ handlers'[p].resp.status = 404
                    /\ handlers'[p].raised
              /\ (handlers'[p].pc # "idle" /\ handlers'[q].pc # "idle") =>
                    ~(Succeeded(handlers'[p]) /\ Succeeded(handlers'[q]))]_vars

\* both deletes of the same id are through: one answers 200, the other 404,
\* and the other stored row is still there
C24_Witness ==
    \E p, q \in Procs :
        /\ DeletingSame(p, q)
        /\ handlers[p].pc = "exit"
        /\ handlers[p].resp.status = 200
        /\ handlers[q].pc = "exit"
        /\ handlers[q].resp.status = 404
        /\ Cardinality(table) = 1
        /\ handlers[p].request.id \notin Ids(table)

=============================================================================
